---- MODULE Spec2Model ----
(***************************************************************************)
(* newsdedup: the deduplication loop of src/newsdedup.py (run, monitor_rss,*)
(* learn_last_read and the helpers they call) against a Miniflux backend   *)
(* (src/backends.py).  One process runs at a time; the backend's articles  *)
(* and the state file outlive it.                                          *)
(*                                                                         *)
(* Strings of the program are modelled as sequences of tokens: a title is  *)
(* the sequence of its whitespace-separated words, a URL the sequence of   *)
(* its pieces, where "?", "&", "#" and "=" are tokens of their own and     *)
(* every other token is free of these four characters.                     *)
(***************************************************************************)
EXTENDS Integers, Sequences, FiniteSets, TLC

(***************************************************************************)
(* Bounds of the model.                                                    *)
(***************************************************************************)
\* articles the backend ever holds
MaxArticles == 3
\* failures the environment injects (backend calls, state file writes)
MaxFaults == 1
\* passes through the loop of run()
MaxIterations == 3
\* the floor of the queue length, 5000 in init_title_queue, scaled down
MIN_TOTAL_MAXLEN == 2
\* the queue length per configured article, 100 in init_title_queue, scaled down
MAXLEN_PER_COUNT == 1
\* newsdedup.DEFAULT_BATCH_SIZE, 200 in the source, scaled down
DEFAULT_BATCH_SIZE == 2

Max(a, b) == IF a >= b THEN a ELSE b
Min(a, b) == IF a <= b THEN a ELSE b

(***************************************************************************)
(* Inputs: titles, links, feeds, configurations.                           *)
(***************************************************************************)
T1 == <<"storm">>
T2 == <<"Storm", "hits">>
T3 == <<"storm", "hits", "coast">>

NoLink == <<>>
L1 == <<"https://news/x">>
L1t == <<"https://news/x", "?", "utm_source", "=", "a">>

\* what feeds publish: a title and a link.  A and B are the same page under
\* unlike titles, C has no link and shares words with both.
StoryA == [title |-> T1, link |-> L1]
StoryB == [title |-> T3, link |-> L1t]
StoryC == [title |-> T2, link |-> NoLink]

\* rss.get_feeds(): the feeds of the backend, by id
Feeds == <<1, 2>>
FeedIds == {Feeds[i] : i \in DOMAIN Feeds}

\* an article as a feed publishes it
Published(story, feed_id, unread, is_updated) ==
    [title |-> story.title, link |-> story.link, feed_id |-> feed_id,
     unread |-> unread, is_updated |-> is_updated]

Unread(story, feed_id) == Published(story, feed_id, TRUE, FALSE)
Edited(story, feed_id) == Published(story, feed_id, TRUE, TRUE)

\* [newsdedup] and [feeds] of the configuration file, as monitor_rss and
\* learn_last_read read them; the method is "jaccard"
Config(ratio, check_urls, ignore_list, nostar_list, internal_only_feeds) ==
    [ratio |-> ratio, check_urls |-> check_urls, maxcount |-> 2,
     learning_retry_interval |-> 2, ignore_list |-> ignore_list,
     nostar_list |-> nostar_list, internal_only_feeds |-> internal_only_feeds]

\* "".split(",")
NoFeeds == {""}

\* A run is a configuration and the articles the feeds may publish under it.
\* The runs that exercise the loop: one story, read already on either feed
\* or unread on the first.
LoopRuns ==
    { [config |-> Config(50, TRUE, NoFeeds, NoFeeds, {}),
       publishes |-> {Published(StoryA, f, FALSE, FALSE) : f \in FeedIds}
                     \cup {Unread(StoryA, 1)}] }

\* The runs that exercise the duplicate tests.
DedupRuns ==
    \* links: the same page under two titles, feed 1 is not starred
    { [config |-> Config(50, TRUE, NoFeeds, {"1"}, {}),
       publishes |-> {Unread(StoryA, 1), Unread(StoryB, 2)}] }
    \cup
    \* titles: no link test, the boundaries of the ratio
    { [config |-> Config(ratio, FALSE, NoFeeds, NoFeeds, {}),
       publishes |-> {Unread(StoryA, 1), Unread(StoryC, 1), Unread(StoryB, 1)}] :
        ratio \in {0, 50, 100} }
    \cup
    \* edited articles and an ignored feed
    { [config |-> Config(50, TRUE, {"2"}, NoFeeds, {}),
       publishes |-> {Unread(StoryA, 1), Unread(StoryA, 2), Edited(StoryA, 1)}] }
    \cup
    \* feed 1 is compared with itself only: by link, by title
    { [config |-> Config(50, TRUE, NoFeeds, {"1"}, {1}),
       publishes |-> {Unread(story, f) : f \in FeedIds}] :
        story \in {StoryA, StoryC} }

\* Links to one page: with a tracking parameter first and a fragment, the
\* page's own query, with the tracking parameter last, with two "&" at the
\* end, with a fragment only.
Page == "https://x/a"
Tracked == <<Page, "?", "utm_source", "=", "y", "&", "id", "=", "1", "#", "frag">>
Plain == <<Page, "?", "id", "=", "1">>
TrackedLast == <<Page, "?", "id", "=", "1", "&", "utm_source", "=", "y">>
Trailing == <<Page, "?", "id", "=", "1", "&", "&">>
Anchored == <<Page, "#", "frag">>
Links == {Tracked, Plain, TrackedLast, Trailing, Anchored}

\* Links that are a fragment only and a tracking parameter only.
FragmentOnly == <<"#", "frag">>
TrackingOnly == <<"?", "utm_source", "=", "y">>

\* The runs that exercise normalize_url: one story under one of the links,
\* unread on the first feed or read already on the second; and a story
\* without a link, read already, beside another story under a link with
\* nothing but a fragment or a tracking parameter.
UrlRuns ==
    { [config |-> Config(50, TRUE, NoFeeds, NoFeeds, {}),
       publishes |-> {Unread([title |-> T1, link |-> link], 1),
                      Published([title |-> T1, link |-> link], 2, FALSE, FALSE)}] :
        link \in Links }
    \cup
    { [config |-> Config(50, TRUE, NoFeeds, NoFeeds, {}),
       publishes |-> {Published([title |-> T1, link |-> NoLink], 2, FALSE, FALSE),
                      Unread([title |-> T3, link |-> FragmentOnly], 1),
                      Unread([title |-> T3, link |-> TrackingOnly], 1)}] }

(***************************************************************************)
(* State.                                                                  *)
(***************************************************************************)
VARIABLES
    config,            \* the configuration the process was started with
    publishes,         \* the articles the feeds may publish
    dry_run,           \* args.dry_run
    articles,          \* backend: articles[i] is the article with id i
    state_file,        \* .newsdedup_state: NoFile or its text
    pc,                \* position of the process
    title_queue,       \* the deque of LearnedArticle
    last_id,           \* run(): last_id
    iteration_count,   \* run(): iteration_count
    feed_idx,          \* learn_last_read: position in feeds
    learned_from_feed, \* learn_last_read: learned_from_feed
    feed_batch,        \* learn_last_read: feed_batch
    start_id,          \* monitor_rss: start_id
    headlines,         \* monitor_rss: headlines
    idx,               \* monitor_rss: position of the for loop in headlines
    faults,            \* failures injected so far
    \* observation of the run, read by no action's guard
    appended,          \* the records appended to title_queue since it was built or cleared: the last maxlen + 1 of them
    calls,             \* backend mark calls issued by this process
    warmup,            \* what the last call of learn_last_read did
    verdict,           \* what the last pass of the for loop did with its article
    fetch_ok,          \* whether the fetch of the current cycle succeeded
    fetched_since,     \* the largest since_id this process polled with
    recovering         \* an error was caught by run() and no sleep has happened since

vars == <<config, publishes, dry_run, articles, state_file, pc, title_queue, last_id,
          iteration_count, feed_idx, learned_from_feed, feed_batch, start_id,
          headlines, idx, faults, appended, calls, warmup, verdict,
          fetch_ok, fetched_since, recovering>>

NoFile == "<absent>"
NoSince == -MaxArticles - 1

(***************************************************************************)
(* State file: load_state / save_state.                                    *)
(***************************************************************************)
\* the integers a checkpoint can be: latest id minus unread count, or an id
IdRange == (-MaxArticles)..MaxArticles

\* str(last_id)
str(n) == ToString(n)

\* int(text.strip()); raises ValueError when text is no integer
IsInt(text) == \E n \in IdRange : str(n) = text
int(text) == CHOOSE n \in IdRange : str(n) = text

load_state(file) ==
    IF file # NoFile /\ IsInt(file) THEN int(file) ELSE 0

\* save_state leaving the state file away
save_state_skipped(id) == NoFile

\* the state file after save_state(id): written, or open() failed (file as
\* it was), or write() failed after open() truncated it
save_state_written(id) == str(id)
save_state_failures(file) == {file, ""}

(***************************************************************************)
(* The queue: deque(maxlen=total_maxlen).                                  *)
(***************************************************************************)
init_title_queue(cfg) == Max(MIN_TOTAL_MAXLEN, cfg.maxcount * MAXLEN_PER_COUNT)

LearnedArticle(title, url, feed_id) ==
    [title |-> title, url |-> url, feed_id |-> feed_id]

\* append of a deque built without maxlen: nothing is discarded
DequeAppendUnbounded(q, maxlen, item) == Append(q, item)

\* deque.append with maxlen: at capacity the leftmost item is discarded
DequeAppend(q, maxlen, item) ==
    IF Len(q) >= maxlen THEN Append(Tail(q), item) ELSE Append(q, item)

\* the history of appends, cut to its last maxlen + 1 records
Recent(history, maxlen) ==
    IF Len(history) > maxlen + 1
    THEN SubSeq(history, Len(history) - maxlen, Len(history))
    ELSE history

RECURSIVE DequeExtend(_, _, _)
DequeExtend(q, maxlen, items) ==
    IF items = <<>> THEN q
    ELSE DequeExtend(DequeAppend(q, maxlen, Head(items)), maxlen, Tail(items))

(***************************************************************************)
(* normalize_url.                                                          *)
(***************************************************************************)
tracking_params ==
    <<"utm_source", "utm_medium", "utm_campaign", "utm_term", "utm_content",
      "fbclid", "gclid", "msclkid", "mc_cid", "mc_eid">>

\* url.split("#")[0]
RECURSIVE BeforeFragment(_)
BeforeFragment(u) ==
    IF u = <<>> \/ Head(u) = "#" THEN <<>>
    ELSE <<Head(u)>> \o BeforeFragment(Tail(u))

\* the rest of u after the longest prefix matching [^&]*
RECURSIVE SkipValue(_)
SkipValue(u) ==
    IF u = <<>> \/ Head(u) = "&" THEN u ELSE SkipValue(Tail(u))

\* re.sub(rf"[?&]{param}=[^&]*", "", u): leftmost matches, not overlapping
RECURSIVE RemoveParam(_, _)
RemoveParam(u, param) ==
    IF u = <<>> THEN <<>>
    ELSE IF /\ Head(u) \in {"?", "&"}
            /\ Len(u) >= 3
            /\ u[2] = param
            /\ u[3] = "="
         THEN RemoveParam(SkipValue(SubSeq(u, 4, Len(u))), param)
         ELSE <<Head(u)>> \o RemoveParam(Tail(u), param)

\* for param in tracking_params: url = re.sub(...); each substitution is
\* computed once, on the result of the one before
RECURSIVE RemoveParams(_, _)
RemoveParams(u, params) ==
    IF params = <<>> THEN u
    ELSE CHOOSE result \in {RemoveParams(url, Tail(params)) :
                                url \in {RemoveParam(u, Head(params))}} : TRUE

\* re.sub(r"[?&]$", "", u)
StripTrailing(u) ==
    IF u # <<>> /\ u[Len(u)] \in {"?", "&"} THEN SubSeq(u, 1, Len(u) - 1) ELSE u

normalize_url(url) == StripTrailing(RemoveParams(BeforeFragment(url), tracking_params))

\* normalize_url(article.link) if hasattr(article, "link") and article.link else ""
LearnedUrl(link) == IF link # <<>> THEN normalize_url(link) ELSE <<>>

(***************************************************************************)
(* Similarity of titles.                                                   *)
(***************************************************************************)
\* str.lower() on a word
lower(w) == IF w = "Storm" THEN "storm" ELSE w

\* set(title.lower().split())
words(title) == {lower(title[i]) : i \in DOMAIN title}

\* int((intersection / union) * 100): the quotients the bounded titles give
\* (n/1, n/2, n/3) are floored alike by the float and the integer division
jaccard_similarity(str1, str2) ==
    LET words1 == words(str1)
        words2 == words(str2)
        intersection == Cardinality(words1 \cap words2)
        union == Cardinality(words1 \cup words2)
    IN  IF words1 = {} \/ words2 = {} THEN 0
        ELSE IF union > 0 THEN (intersection * 100) \div union ELSE 0

\* the configured similarity_method is "jaccard"
calculate_similarity(title1, title2) == jaccard_similarity(title1, title2)

(***************************************************************************)
(* The backend: MinifluxBackend over the articles it holds.  Entries come  *)
(* back newest first (highest id first).                                   *)
(***************************************************************************)
\* MinifluxArticle(entry)
Article(id) ==
    [id |-> id, title |-> articles[id].title, link |-> articles[id].link,
     feed_id |-> articles[id].feed_id, unread |-> articles[id].unread,
     is_updated |-> articles[id].is_updated]

\* the params of GET /v1/entries; 0 stands for an argument left None
EntryMatches(id, feed_id, view_mode, since_id) ==
    /\ (view_mode = "unread" => articles[id].unread)
    /\ (since_id # 0 => id > since_id)
    /\ ((feed_id # 0 /\ feed_id # -1) => articles[id].feed_id = feed_id)

RECURSIVE EntriesFrom(_, _, _, _, _)
EntriesFrom(id, feed_id, view_mode, since_id, limit) ==
    IF id < 1 THEN <<>>
    ELSE IF EntryMatches(id, feed_id, view_mode, since_id)
         THEN IF limit = 1 THEN <<Article(id)>>
              ELSE <<Article(id)>> \o
                   EntriesFrom(id - 1, feed_id, view_mode, since_id,
                               IF limit = 0 THEN 0 ELSE limit - 1)
         ELSE EntriesFrom(id - 1, feed_id, view_mode, since_id, limit)

\* MinifluxBackend.get_headlines
get_headlines(feed_id, view_mode, since_id, limit) ==
    EntriesFrom(Len(articles), feed_id, view_mode, since_id, limit)

\* MinifluxBackend.get_unread_count
get_unread_count == Cardinality({id \in DOMAIN articles : articles[id].unread})

\* MinifluxBackend.mark_read
mark_read(arts, id) ==
    IF id \in DOMAIN arts THEN [arts EXCEPT ![id].unread = FALSE] ELSE arts

(***************************************************************************)
(* The duplicate tests of monitor_rss.                                     *)
(***************************************************************************)
\* every record is compared, whatever its feed
ComparedAcrossFeeds(item, internal_only_feeds, feed_id) == TRUE

\* "if feed_id in internal_only_feeds and item.feed_id != feed_id: continue"
Compared(item, internal_only_feeds, feed_id) ==
    ~(feed_id \in internal_only_feeds /\ item.feed_id # feed_id)

\* the URL test on the link as published, not normalized
check_raw_url_duplicate(url_queue, head, internal_only_feeds, feed_id) ==
    IF head.link = <<>> THEN FALSE
    ELSE \E i \in DOMAIN url_queue :
            /\ Compared(url_queue[i], internal_only_feeds, feed_id)
            /\ head.link = url_queue[i].url

\* check_url_duplicate: the normalized link is the url of a compared record
check_url_duplicate(url_queue, head, internal_only_feeds, feed_id) ==
    IF head.link = <<>> THEN FALSE
    ELSE \E i \in DOMAIN url_queue :
            /\ Compared(url_queue[i], internal_only_feeds, feed_id)
            /\ normalize_url(head.link) = url_queue[i].url

\* the scan with "similarity >= ratio" for its test
RECURSIVE compare_to_queue_at_least(_, _, _, _, _)
compare_to_queue_at_least(queue, head, ratio, internal_only_feeds, feed_id) ==
    IF queue = <<>> THEN 0
    ELSE LET item == Head(queue)
             similarity == calculate_similarity(item.title, head.title)
         IN  IF /\ Compared(item, internal_only_feeds, feed_id)
                /\ similarity >= ratio
             THEN similarity
             ELSE compare_to_queue_at_least(Tail(queue), head, ratio,
                                            internal_only_feeds, feed_id)

\* compare_to_queue: the similarity of the first compared item above the
\* ratio, else 0
RECURSIVE compare_to_queue(_, _, _, _, _)
compare_to_queue(queue, head, ratio, internal_only_feeds, feed_id) ==
    IF queue = <<>> THEN 0
    ELSE LET item == Head(queue)
             similarity == calculate_similarity(item.title, head.title)
         IN  IF /\ Compared(item, internal_only_feeds, feed_id)
                /\ similarity > ratio
             THEN similarity
             ELSE compare_to_queue(Tail(queue), head, ratio, internal_only_feeds, feed_id)

\* lines 416-438: the test that made is_duplicate True, "none" when none did
DuplicateReason(head, queue, cfg) ==
    IF cfg.check_urls /\ check_url_duplicate(queue, head, cfg.internal_only_feeds, head.feed_id)
    THEN "url"
    ELSE IF compare_to_queue(queue, head, cfg.ratio, cfg.internal_only_feeds, head.feed_id) > 0
         THEN "title"
         ELSE "none"

\* line 415 without its two tests
HandledAlways(head, cfg) == TRUE

\* line 415: the article is neither edited nor of an ignored feed
Handled(head, cfg) ==
    (~head.is_updated) /\ (str(head.feed_id) \notin cfg.ignore_list)

Classify(head, queue, cfg) ==
    IF Handled(head, cfg) THEN DuplicateReason(head, queue, cfg) ELSE "none"

\* handle_known_news without "if not dry_run"
handle_known_news_marking(head, nostar_list, dry) ==
    IF str(head.feed_id) \in nostar_list
    THEN <<"mark_read">>
    ELSE <<"mark_starred", "mark_read">>

\* handle_known_news: the backend calls it makes, in order
handle_known_news(head, nostar_list, dry) ==
    IF dry THEN <<>>
    ELSE IF str(head.feed_id) \in nostar_list
         THEN <<"mark_read">>
         ELSE <<"mark_starred", "mark_read">>

(***************************************************************************)
(* Initial state: a process about to enter run(), an empty backend, no     *)
(* state file.                                                             *)
(***************************************************************************)
NoVerdict ==
    [id |-> 0, feed_id |-> 0, is_updated |-> FALSE, title |-> <<>>, link |-> <<>>,
     reason |-> "none", similarity |-> 0, queue |-> <<>>, marks |-> <<>>]

\* learn_last_read as observed: how the call went ("cached": it returned at
\* line 183, "learn": it learned into an empty queue, "relearn": it was
\* forced), the records line 189 cleared, the articles lines 218-230
\* appended a record for, in order, and the feeds lines 233-238 left
NoWarmup == [call |-> "none", dropped |-> 0, learned |-> <<>>, failed |-> {}]

Running == {"start", "loop", "learn", "monitor", "fetch", "heads", "sleep"}

InitWith(runs) ==
    /\ \E run \in runs : config = run.config /\ publishes = run.publishes
    /\ dry_run \in BOOLEAN
    /\ articles = <<>>
    /\ state_file = NoFile
    /\ pc = "start"
    /\ title_queue = <<>>
    /\ last_id = 0
    /\ iteration_count = 0
    /\ feed_idx = 1
    /\ learned_from_feed = 0
    /\ feed_batch = 0
    /\ start_id = 0
    /\ headlines = <<>>
    /\ idx = 1
    /\ faults = 0
    /\ appended = <<>>
    /\ calls = {}
    /\ warmup = NoWarmup
    /\ verdict = NoVerdict
    /\ fetch_ok = TRUE
    /\ fetched_since = NoSince
    /\ recovering = FALSE

Init == InitWith(LoopRuns)
InitDedup == InitWith(DedupRuns)
InitUrl == InitWith(UrlRuns)

backend == <<articles>>
learn_frame == <<feed_idx, learned_from_feed, feed_batch>>
monitor_frame == <<start_id, headlines, idx, fetch_ok>>
observed == <<calls, warmup, verdict>>

\* the locals of learn_last_read and monitor_rss are gone once they return or raise
ResetLearnFrame == feed_idx' = 1 /\ learned_from_feed' = 0 /\ feed_batch' = 0
ResetMonitorFrame == start_id' = 0 /\ headlines' = <<>> /\ idx' = 1 /\ fetch_ok' = TRUE

\* run(), lines 503-509: the error is printed and the while loop goes round
Caught ==
    /\ pc' = "loop"
    /\ recovering' = TRUE
    /\ ResetLearnFrame
    /\ ResetMonitorFrame

(***************************************************************************)
(* The environment: a feed publishes an article.                           *)
(***************************************************************************)
NewArticle ==
    /\ Len(articles) < MaxArticles
    /\ \E article \in publishes : articles' = Append(articles, article)
    /\ UNCHANGED <<config, publishes, dry_run, state_file, pc, title_queue, last_id,
                   iteration_count, learn_frame, monitor_frame, faults, appended,
                   observed, fetched_since, recovering>>

(***************************************************************************)
(* run(): entry.                                                           *)
(***************************************************************************)
RunStart ==
    /\ pc = "start"
    /\ last_id' = load_state(state_file)
    /\ iteration_count' = 0
    /\ pc' = "loop"
    /\ UNCHANGED <<config, publishes, dry_run, backend, state_file, title_queue, learn_frame,
                   monitor_frame, faults, appended, observed, fetched_since,
                   recovering>>

(***************************************************************************)
(* learn_last_read.                                                        *)
(***************************************************************************)
\* never forced
never_relearn(count, cfg) == FALSE

\* forced at every call
always_relearn(count, cfg) == TRUE

\* run(), line 482
force_relearn(count, cfg) ==
    (count % cfg.learning_retry_interval = 0) /\ count > 0

\* lines 186-189 as observed: the call that learns, and what it cleared
Warmup(forced, queue) ==
    [call |-> IF forced THEN "relearn" ELSE "learn", dropped |-> Len(queue),
     learned |-> <<>>, failed |-> {}]

\* line 178: the queue is cached and learning is not forced
LearnSkip ==
    /\ pc = "loop"
    /\ iteration_count < MaxIterations
    /\ iteration_count' = iteration_count + 1
    /\ ~force_relearn(iteration_count + 1, config)
    /\ Len(title_queue) > 0
    /\ pc' = "monitor"
    /\ warmup' = [NoWarmup EXCEPT !.call = "cached"]
    /\ UNCHANGED <<config, publishes, dry_run, backend, state_file, title_queue, last_id,
                   learn_frame, monitor_frame, faults, appended, calls, verdict,
                   fetched_since, recovering>>

\* lines 186-199 with rss.get_feeds() answering
LearnStart ==
    /\ pc = "loop"
    /\ iteration_count < MaxIterations
    /\ iteration_count' = iteration_count + 1
    /\ force_relearn(iteration_count + 1, config) \/ Len(title_queue) = 0
    /\ title_queue' = <<>>
    /\ appended' = <<>>
    /\ warmup' = Warmup(force_relearn(iteration_count + 1, config), title_queue)
    /\ ResetLearnFrame
    /\ pc' = "learn"
    /\ UNCHANGED <<config, publishes, dry_run, backend, state_file, last_id, monitor_frame,
                   faults, calls, verdict, fetched_since, recovering>>

\* lines 186-192 with rss.get_feeds() raising
LearnGetFeedsFails ==
    /\ pc = "loop"
    /\ iteration_count < MaxIterations
    /\ faults < MaxFaults
    /\ faults' = faults + 1
    /\ iteration_count' = iteration_count + 1
    /\ force_relearn(iteration_count + 1, config) \/ Len(title_queue) = 0
    /\ title_queue' = <<>>
    /\ appended' = <<>>
    /\ warmup' = Warmup(force_relearn(iteration_count + 1, config), title_queue)
    /\ Caught
    /\ UNCHANGED <<config, publishes, dry_run, backend, state_file, last_id, calls,
                   verdict, fetched_since>>

\* the for loop of line 201 moves to the next feed, or learn_last_read returns
NextFeed ==
    IF feed_idx < Len(Feeds)
    THEN /\ feed_idx' = feed_idx + 1
         /\ learned_from_feed' = 0
         /\ feed_batch' = 0
         /\ pc' = "learn"
    ELSE /\ ResetLearnFrame
         /\ pc' = "monitor"

\* the records lines 218-230 append for one page
RECURSIVE LearnedFrom(_, _)
LearnedFrom(page, feed) ==
    IF page = <<>> THEN <<>>
    ELSE LET article == Head(page)
         IN  (IF ~article.unread
              THEN <<LearnedArticle(article.title, LearnedUrl(article.link), feed)>>
              ELSE <<>>) \o LearnedFrom(Tail(page), feed)

\* the articles of a page that lines 218-230 append a record for
RECURSIVE LearnedIds(_, _)
LearnedIds(page, feed) ==
    IF page = <<>> THEN <<>>
    ELSE (IF ~Head(page).unread THEN <<[feed |-> feed, id |-> Head(page).id]>> ELSE <<>>)
         \o LearnedIds(Tail(page), feed)

\* line 209: start_id = feed_batch * DEFAULT_BATCH_SIZE
PageStart(batch) == batch * DEFAULT_BATCH_SIZE

\* the page counter left as it is
SameBatch(batch) == batch

\* line 232: feed_batch += 1
NextBatch(batch) == batch + 1

\* one pass of the while loop of line 206 with get_headlines answering
LearnPage ==
    /\ pc = "learn"
    /\ LET feed == Feeds[feed_idx]
           limit == Min(config.maxcount - learned_from_feed, DEFAULT_BATCH_SIZE)
           since == PageStart(feed_batch)
           page == get_headlines(feed, "all_articles", since, limit)
           records == LearnedFrom(page, feed)
           learned == learned_from_feed + Len(records)
       IN  IF page = <<>>
           THEN /\ NextFeed
                /\ UNCHANGED <<title_queue, appended, warmup>>
           ELSE /\ title_queue' = DequeExtend(title_queue, init_title_queue(config), records)
                /\ appended' = Recent(appended \o records, init_title_queue(config))
                /\ warmup' = [warmup EXCEPT !.learned = @ \o LearnedIds(page, feed)]
                /\ IF learned < config.maxcount
                   THEN /\ learned_from_feed' = learned
                        /\ feed_batch' = NextBatch(feed_batch)
                        /\ UNCHANGED <<feed_idx, pc>>
                   ELSE NextFeed
    /\ UNCHANGED <<config, publishes, dry_run, backend, state_file, last_id, iteration_count,
                   monitor_frame, faults, calls, verdict, fetched_since, recovering>>

\* get_headlines raised and the error left learn_last_read
LearnPageFailsAborts ==
    /\ pc = "learn"
    /\ faults < MaxFaults
    /\ faults' = faults + 1
    /\ warmup' = [warmup EXCEPT !.failed = @ \cup {Feeds[feed_idx]}]
    /\ Caught
    /\ UNCHANGED <<config, publishes, dry_run, backend, state_file, title_queue, last_id,
                   iteration_count, appended, calls, verdict, fetched_since>>

\* lines 233-238: get_headlines raised, the feed is left
LearnPageFails ==
    /\ pc = "learn"
    /\ faults < MaxFaults
    /\ faults' = faults + 1
    /\ warmup' = [warmup EXCEPT !.failed = @ \cup {Feeds[feed_idx]}]
    /\ NextFeed
    /\ UNCHANGED <<config, publishes, dry_run, backend, state_file, title_queue, last_id,
                   iteration_count, monitor_frame, appended, calls, verdict,
                   fetched_since, recovering>>

(***************************************************************************)
(* monitor_rss.                                                            *)
(***************************************************************************)
\* line 393 taking the else branch whatever was saved
IgnoreSavedState(saved_state) == FALSE

\* line 393: "if saved_state > 0"
UseSavedState(saved_state) == saved_state > 0

\* lines 390-394: a saved state above 0 is the start
MonitorResume ==
    /\ pc = "monitor"
    /\ UseSavedState(last_id)
    /\ start_id' = last_id
    /\ headlines' = <<>>
    /\ pc' = "fetch"
    /\ UNCHANGED <<config, publishes, dry_run, backend, state_file, title_queue, last_id,
                   iteration_count, learn_frame, idx, fetch_ok, faults, appended,
                   observed, fetched_since, recovering>>

\* lines 395-398: the id of the first entry of all_articles minus the unread
\* count; [0] of an empty list raises IndexError
MonitorLatest ==
    /\ pc = "monitor"
    /\ ~UseSavedState(last_id)
    /\ LET latest == get_headlines(0, "all_articles", 0, 1)
       IN  IF latest = <<>>
           THEN Caught
           ELSE /\ start_id' = latest[1].id - get_unread_count
                /\ headlines' = <<>>
                /\ pc' = "fetch"
                /\ UNCHANGED <<learn_frame, idx, fetch_ok, recovering>>
    /\ UNCHANGED <<config, publishes, dry_run, backend, state_file, title_queue, last_id,
                   iteration_count, faults, appended, observed, fetched_since>>

\* lines 395-398 with get_headlines or get_unread_count raising
MonitorLatestFails ==
    /\ pc = "monitor"
    /\ ~UseSavedState(last_id)
    /\ faults < MaxFaults
    /\ faults' = faults + 1
    /\ Caught
    /\ UNCHANGED <<config, publishes, dry_run, backend, state_file, title_queue, last_id,
                   iteration_count, appended, observed, fetched_since>>

\* lines 401-402: the unread articles after start_id
Fetch ==
    /\ pc = "fetch"
    /\ headlines' = get_headlines(0, "unread", start_id, 0)
    /\ fetch_ok' = TRUE
    /\ fetched_since' = Max(fetched_since, start_id)
    /\ idx' = 1
    /\ pc' = "heads"
    /\ UNCHANGED <<config, publishes, dry_run, backend, state_file, title_queue, last_id,
                   iteration_count, learn_frame, start_id, faults, appended,
                   observed, recovering>>

\* lines 403-404: get_headlines raised; headlines is not assigned
FetchFails ==
    /\ pc = "fetch"
    /\ faults < MaxFaults
    /\ faults' = faults + 1
    /\ fetch_ok' = FALSE
    /\ fetched_since' = Max(fetched_since, start_id)
    /\ idx' = 1
    /\ pc' = "heads"
    /\ UNCHANGED <<config, publishes, dry_run, backend, state_file, title_queue, last_id,
                   iteration_count, learn_frame, start_id, headlines, appended,
                   observed, recovering>>

\* what one pass of the for loop of line 411 found for head
Verdict(head, queue, cfg, ops) ==
    [id |-> head.id, feed_id |-> head.feed_id, is_updated |-> head.is_updated,
     title |-> head.title, link |-> head.link,
     reason |-> Classify(head, queue, cfg),
     similarity |-> IF Classify(head, queue, cfg) = "title"
                    THEN compare_to_queue(queue, head, cfg.ratio,
                                          cfg.internal_only_feeds, head.feed_id)
                    ELSE 0,
     queue |-> queue, marks |-> ops]

\* the backend calls line 442 makes for head
MarkCalls(head, queue, cfg, dry) ==
    IF Classify(head, queue, cfg) # "none"
    THEN handle_known_news(head, cfg.nostar_list, dry)
    ELSE <<>>

Issued(ops, id) == {[op |-> ops[i], id |-> id] : i \in DOMAIN ops}

\* lines 445-451 moved into the "if" of line 415
LearnsHandled(head, cfg) == Handled(head, cfg)

\* lines 445-451 are in the for loop, outside the "if" of line 415: a record
\* is appended for every head
Learns(head, cfg) == TRUE

\* lines 411-451: one pass of the for loop, no call raising
ProcessHead ==
    /\ pc = "heads"
    /\ idx <= Len(headlines)
    /\ LET head == headlines[idx]
           ops == MarkCalls(head, title_queue, config, dry_run)
           item == LearnedArticle(head.title, LearnedUrl(head.link), head.feed_id)
       IN  /\ start_id' = Max(start_id, head.id)
           /\ calls' = calls \cup Issued(ops, head.id)
           /\ articles' = IF \E i \in DOMAIN ops : ops[i] = "mark_read"
                          THEN mark_read(articles, head.id)
                          ELSE articles
           /\ verdict' = Verdict(head, title_queue, config, ops)
           /\ title_queue' = IF Learns(head, config)
                             THEN DequeAppend(title_queue, init_title_queue(config), item)
                             ELSE title_queue
           /\ appended' = IF Learns(head, config)
                          THEN Recent(Append(appended, item), init_title_queue(config))
                          ELSE appended
    /\ idx' = idx + 1
    /\ UNCHANGED <<config, publishes, dry_run, state_file, pc, last_id, iteration_count,
                   learn_frame, headlines, fetch_ok, faults, warmup, fetched_since,
                   recovering>>

\* lines 411-442 with the k-th call of handle_known_news raising: the error
\* leaves monitor_rss and is caught by run()
ProcessHeadMarkFails ==
    /\ pc = "heads"
    /\ idx <= Len(headlines)
    /\ faults < MaxFaults
    /\ faults' = faults + 1
    /\ LET head == headlines[idx]
           ops == MarkCalls(head, title_queue, config, dry_run)
       IN  \E k \in DOMAIN ops :
              /\ calls' = calls \cup Issued(SubSeq(ops, 1, k), head.id)
              /\ articles' = IF \E i \in 1..(k - 1) : ops[i] = "mark_read"
                             THEN mark_read(articles, head.id)
                             ELSE articles
              /\ verdict' = Verdict(head, title_queue, config, SubSeq(ops, 1, k))
    /\ Caught
    /\ UNCHANGED <<config, publishes, dry_run, state_file, title_queue, last_id,
                   iteration_count, appended, warmup, fetched_since>>

\* the sleep of lines 458-460 reached in a dry run too
EndCycleAnyMode ==
    /\ pc = "heads"
    /\ idx > Len(headlines)
    /\ pc' = "sleep"
    /\ recovering' = FALSE
    /\ UNCHANGED <<config, publishes, dry_run, backend, state_file, title_queue, last_id,
                   iteration_count, learn_frame, monitor_frame, faults, appended,
                   observed, fetched_since>>

\* lines 458-460: the batch is done, the process sleeps
EndCycle ==
    /\ pc = "heads"
    /\ idx > Len(headlines)
    /\ ~dry_run
    /\ pc' = "sleep"
    /\ recovering' = FALSE
    /\ UNCHANGED <<config, publishes, dry_run, backend, state_file, title_queue, last_id,
                   iteration_count, learn_frame, monitor_frame, faults, appended,
                   observed, fetched_since>>

\* time.sleep(sleeptime) returns
WakeUp ==
    /\ pc = "sleep"
    /\ pc' = "fetch"
    /\ UNCHANGED <<config, publishes, dry_run, backend, state_file, title_queue, last_id,
                   iteration_count, learn_frame, monitor_frame, faults, appended,
                   observed, fetched_since, recovering>>

\* lines 453-456 and 487-495: monitor_rss returns start_id, run() saves it
\* and leaves its loop
DryRunReturn ==
    /\ pc = "heads"
    /\ idx > Len(headlines)
    /\ dry_run
    /\ last_id' = start_id
    /\ state_file' = save_state_written(start_id)
    /\ pc' = "done"
    /\ UNCHANGED <<config, publishes, dry_run, backend, title_queue, iteration_count,
                   learn_frame, monitor_frame, faults, appended, observed,
                   fetched_since, recovering>>

\* the same with save_state failing: it prints a warning
DryRunReturnSaveFails ==
    /\ pc = "heads"
    /\ idx > Len(headlines)
    /\ dry_run
    /\ faults < MaxFaults
    /\ faults' = faults + 1
    /\ last_id' = start_id
    /\ state_file' \in save_state_failures(state_file)
    /\ pc' = "done"
    /\ UNCHANGED <<config, publishes, dry_run, backend, title_queue, iteration_count,
                   learn_frame, monitor_frame, appended, observed, fetched_since,
                   recovering>>

(***************************************************************************)
(* The process ends and is started again.                                  *)
(***************************************************************************)
\* a handler of KeyboardInterrupt that saves the checkpoint before it exits
InterruptSavesState ==
    /\ pc \in Running
    /\ pc' = "exit"
    /\ state_file' = save_state_written(start_id)
    /\ title_queue' = <<>>
    /\ last_id' = 0
    /\ iteration_count' = 0
    /\ ResetLearnFrame
    /\ ResetMonitorFrame
    /\ appended' = <<>>
    /\ warmup' = NoWarmup
    /\ verdict' = NoVerdict
    /\ fetched_since' = NoSince
    /\ recovering' = FALSE
    /\ UNCHANGED <<config, publishes, dry_run, backend, faults, calls>>

\* run(), lines 501-502: KeyboardInterrupt, sys.exit(0); the memory of the
\* process is gone
Interrupt ==
    /\ pc \in Running
    /\ pc' = "exit"
    /\ title_queue' = <<>>
    /\ last_id' = 0
    /\ iteration_count' = 0
    /\ ResetLearnFrame
    /\ ResetMonitorFrame
    /\ appended' = <<>>
    /\ warmup' = NoWarmup
    /\ verdict' = NoVerdict
    /\ fetched_since' = NoSince
    /\ recovering' = FALSE
    /\ UNCHANGED <<config, publishes, dry_run, backend, state_file, faults, calls>>

\* main(): a new process, with new queues, over the same backend and state file
Restart ==
    /\ pc \in {"done", "exit"}
    /\ dry_run' \in BOOLEAN
    /\ pc' = "start"
    /\ title_queue' = <<>>
    /\ last_id' = 0
    /\ iteration_count' = 0
    /\ ResetLearnFrame
    /\ ResetMonitorFrame
    /\ appended' = <<>>
    /\ calls' = {}
    /\ warmup' = NoWarmup
    /\ verdict' = NoVerdict
    /\ fetched_since' = NoSince
    /\ recovering' = FALSE
    /\ UNCHANGED <<config, publishes, backend, state_file, faults>>

Next ==
    \/ NewArticle
    \/ RunStart
    \/ LearnSkip
    \/ LearnStart
    \/ LearnGetFeedsFails
    \/ LearnPage
    \/ LearnPageFails
    \/ MonitorResume
    \/ MonitorLatest
    \/ MonitorLatestFails
    \/ Fetch
    \/ FetchFails
    \/ ProcessHead
    \/ ProcessHeadMarkFails
    \/ EndCycle
    \/ WakeUp
    \/ DryRunReturn
    \/ DryRunReturnSaveFails
    \/ Interrupt
    \/ Restart

Spec == Init /\ [][Next]_vars
SpecDedup == InitDedup /\ [][Next]_vars
SpecUrl == InitUrl /\ [][Next]_vars

\* The process from its start to the return of learn_last_read, while feeds
\* publish.  The process is not suspended for ever: a page it is about to ask
\* for is asked for.
NextWarmup ==
    \/ NewArticle
    \/ RunStart
    \/ LearnStart
    \/ LearnGetFeedsFails
    \/ LearnPage
    \/ LearnPageFails

SpecWarmup == Init /\ [][NextWarmup]_vars /\ WF_vars(LearnPage)

\* A process that nothing stops, from the entry of run() on, while feeds
\* publish: learn_last_read, monitor_rss and its poll cycles.  The process is
\* not suspended for ever: a step it is about to take is taken, with the
\* call it makes answering or, while calls may still fail, raising.
Answering ==
    \/ RunStart
    \/ LearnSkip
    \/ LearnStart
    \/ LearnPage
    \/ MonitorLatest
    \/ Fetch
    \/ ProcessHead
    \/ EndCycle
    \/ WakeUp

Raising ==
    \/ LearnGetFeedsFails
    \/ LearnPageFails
    \/ MonitorLatestFails
    \/ FetchFails
    \/ ProcessHeadMarkFails

NextPolling ==
    \/ NewArticle
    \/ Answering
    \/ Raising

SpecPolling == Init /\ [][NextPolling]_vars /\ WF_vars(Answering)

(***************************************************************************)
(* Properties.                                                             *)
(***************************************************************************)
Capacity == init_title_queue(config)

\* C1: the queue never holds more than its capacity, and after k appends
\* from learning or polling since it was built or cleared it is exactly the
\* last min(k, capacity) appended records, in the order of their appending
C1_QueueHoldsLastAppended ==
    LET k == Len(appended)
        n == Min(k, Capacity)
    IN  /\ Len(title_queue) <= Capacity
        /\ title_queue = SubSeq(appended, k - n + 1, k)

\* C1 witness: capacity + 1 records were appended, by learning and then by
\* polling; the first of them is gone and the last is the newest of the queue
C1_Witness ==
    /\ Len(appended) = Capacity + 1
    /\ pc = "heads"
    /\ verdict.id # 0
    /\ ~dry_run
    /\ iteration_count = 1
    /\ fetch_ok
    /\ title_queue[1] = appended[2]
    /\ title_queue[Capacity] = appended[Capacity + 1]

Ignored(feed_id) == str(feed_id) \in config.ignore_list

\* C2: an article that is edited or of an ignored feed is not classified as a
\* duplicate and gets no mark call, in the pass that handles it or ever
C2_SkippedArticleNeverDuplicate ==
    /\ (verdict.id # 0 /\ (verdict.is_updated \/ Ignored(verdict.feed_id)))
          => (verdict.reason = "none" /\ verdict.marks = <<>>)
    /\ \A call \in calls :
          /\ ~articles[call.id].is_updated
          /\ ~Ignored(articles[call.id].feed_id)

\* C2 witness: an edited article was handled while the queue held a record
\* with its title and its canonical URL, and earlier duplicates were marked
C2_Witness ==
    /\ verdict.id # 0
    /\ verdict.is_updated
    /\ \E i \in DOMAIN verdict.queue :
          /\ verdict.queue[i].title = verdict.title
          /\ verdict.queue[i].url = normalize_url(verdict.link)
    /\ calls # {}

\* C3: a dry run issues no mark call
C3_DryRunMarksNothing ==
    dry_run => (calls = {} /\ verdict.marks = <<>>)

\* C3 witness: a dry run that is over has classified an article as a duplicate
C3_Witness ==
    /\ dry_run
    /\ pc = "done"
    /\ verdict.reason # "none"
    /\ calls = {}

\* C4 as claimed: when the live loop sleeps, the state file holds the checkpoint
C4_SleepsWithCheckpointSaved ==
    (pc = "sleep" /\ ~dry_run) => state_file = str(start_id)

\* C5 as claimed: the checkpoint a poll is about to fetch from is never below
\* one this process fetched from before
C5_CheckpointNeverDecreases ==
    pc = "fetch" => start_id >= fetched_since

Checkpoint == int(state_file)
Resumed == pc \in (Running \ {"start"}) /\ IsInt(state_file) /\ Checkpoint > 0

\* C6: a process started over a state file holding c > 0 has loaded c, polls
\* from c first and never below it, and evaluates no article with id <= c
C6_ResumesAfterCheckpoint ==
    Resumed =>
        /\ last_id = Checkpoint
        /\ (pc \in {"fetch", "heads", "sleep"} => start_id >= Checkpoint)
        /\ ((pc = "fetch" /\ fetched_since = NoSince) => start_id = Checkpoint)
        /\ (fetched_since # NoSince => fetched_since >= Checkpoint)
        /\ (verdict.id # 0 => verdict.id > Checkpoint)

\* C6 witness: the process resumed from c, the backend still holds an unread
\* article with id <= c, and an article above c was evaluated
C6_Witness ==
    /\ Resumed
    /\ verdict.id > Checkpoint
    /\ \E id \in DOMAIN articles : id <= Checkpoint /\ articles[id].unread
    /\ Checkpoint > Len(articles) - get_unread_count

\* C7 as claimed: in a cycle whose fetch failed nothing is classified, marked
\* or appended and the checkpoint stays
C7_FailedFetchIsEmptyCycle ==
    [][(pc = "heads" /\ ~fetch_ok) =>
          /\ title_queue' = title_queue
          /\ calls' = calls
          /\ verdict' = verdict
          /\ (pc' = "heads" => start_id' = start_id)]_vars

\* C8 as claimed: after run() caught an error, learning and polling start
\* again only once the process has slept
C8_SleepsBeforeRetry ==
    pc \in {"learn", "monitor", "fetch", "heads"} => ~recovering

InScope(item, feed_id) ==
    feed_id \in config.internal_only_feeds => item.feed_id = feed_id

Classified == verdict.id # 0 /\ ~verdict.is_updated /\ ~Ignored(verdict.feed_id)

UrlMatch ==
    /\ config.check_urls
    /\ verdict.link # <<>>
    /\ \E i \in DOMAIN verdict.queue :
          /\ InScope(verdict.queue[i], verdict.feed_id)
          /\ verdict.queue[i].url = normalize_url(verdict.link)

\* C9: with URL checking on, a classified article with a link is a duplicate
\* by URL whenever a record in its scope has its canonical URL, whatever the
\* titles score
C9_UrlMatchIsDuplicate ==
    (Classified /\ UrlMatch) => verdict.reason = "url"

Score(i) == jaccard_similarity(verdict.queue[i].title, verdict.title)

\* C9 witness: a duplicate by URL whose link differs from the stored URL by a
\* tracking parameter and whose title scores at or below the ratio everywhere
C9_Witness ==
    /\ Classified
    /\ verdict.reason = "url"
    /\ \A i \in DOMAIN verdict.queue :
          /\ verdict.queue[i].url # verdict.link
          /\ Score(i) <= config.ratio
    /\ verdict.marks # <<>>

Qualifies(i) ==
    InScope(verdict.queue[i], verdict.feed_id) /\ Score(i) > config.ratio

\* C10: without a URL match a classified article is a duplicate by title
\* exactly when a record in its scope scores above the ratio, and the
\* similarity found is that of the oldest such record
C10_TitleDuplicateIffAboveRatio ==
    (Classified /\ ~UrlMatch) =>
        /\ (verdict.reason = "title") = (\E i \in DOMAIN verdict.queue : Qualifies(i))
        /\ verdict.reason \in {"title", "none"}
        /\ verdict.reason = "title" =>
              \E i \in DOMAIN verdict.queue :
                 /\ Qualifies(i)
                 /\ \A j \in 1..(i - 1) : ~Qualifies(j)
                 /\ verdict.similarity = Score(i)

\* C10 witness: the match is the oldest record above the ratio while a newer
\* record scores higher
C10_Witness ==
    /\ Classified
    /\ verdict.reason = "title"
    /\ \E j \in DOMAIN verdict.queue : Qualifies(j) /\ Score(j) > verdict.similarity

InternalOnly(feed_id) == feed_id \in config.internal_only_feeds

\* the record at i of the queue is evidence for the verdict: its URL is the
\* article's canonical URL, or its title scores above the ratio
Evidence(i) ==
    IF verdict.reason = "url"
    THEN verdict.queue[i].url = normalize_url(verdict.link)
    ELSE Score(i) > config.ratio

\* C11: an article of an internal-only feed is a duplicate only on the
\* evidence of a record of its own feed; with no such evidence it is no
\* duplicate and gets no mark call, whatever the records of other feeds hold
C11_InternalOnlyNeedsSameFeedEvidence ==
    (Classified /\ InternalOnly(verdict.feed_id)) =>
        IF \E i \in DOMAIN verdict.queue :
              /\ verdict.queue[i].feed_id = verdict.feed_id
              /\ \/ (config.check_urls /\ verdict.link # <<>>
                        /\ verdict.queue[i].url = normalize_url(verdict.link))
                 \/ Score(i) > config.ratio
        THEN verdict.reason # "none"
        ELSE verdict.reason = "none" /\ verdict.marks = <<>>

\* C11 witness: an article of an internal-only feed was found to be no
\* duplicate while a record of another feed held its canonical URL or its
\* very title
C11_Witness ==
    /\ Classified
    /\ InternalOnly(verdict.feed_id)
    /\ verdict.reason = "none"
    /\ \E i \in DOMAIN verdict.queue :
          /\ verdict.queue[i].feed_id # verdict.feed_id
          /\ \/ (verdict.link # <<>> /\ verdict.queue[i].url = normalize_url(verdict.link))
             \/ Score(i) = 100

\* C12 as claimed: a duplicate has evidence that is not a record of another,
\* internal-only feed
C12_InternalRecordsStayInternal ==
    (Classified /\ verdict.reason # "none") =>
        \E i \in DOMAIN verdict.queue :
           /\ Evidence(i)
           /\ ~(InternalOnly(verdict.queue[i].feed_id)
                  /\ verdict.queue[i].feed_id # verdict.feed_id)

\* the read articles the backend holds for a feed
ReadOf(feed) ==
    {id \in DOMAIN articles : articles[id].feed_id = feed /\ ~articles[id].unread}

\* the places of warmup.learned that hold a record of a feed
LearnedOf(feed) == {i \in DOMAIN warmup.learned : warmup.learned[i].feed = feed}

\* C13 as claimed: from a feed with fewer read articles than the limit per
\* feed a pass learns no read article twice, so no more records than the feed
\* has read articles
C13_LearnsEachReadArticleOnce ==
    \A feed \in FeedIds :
       Cardinality(ReadOf(feed)) < config.maxcount =>
          /\ \A i, j \in LearnedOf(feed) :
                warmup.learned[i].id = warmup.learned[j].id => i = j
          /\ Cardinality(LearnedOf(feed)) <= Cardinality(ReadOf(feed))

\* C14: a warm-up pass ends: the paging of a feed never asks beyond the ids
\* the backend holds by more than one page, and a process that is in the
\* paging loop leaves it
C14_WarmupTerminates ==
    /\ [](pc = "learn" => PageStart(feed_batch) <= Len(articles) + DEFAULT_BATCH_SIZE)
    /\ (pc = "learn" ~> pc # "learn")

\* C14 witness: the paging loop has gone through two pages of one feed that
\* held unread articles only
C14_Witness ==
    /\ pc = "learn"
    /\ feed_batch >= 2
    /\ learned_from_feed = 0
    /\ \A id \in DOMAIN articles : articles[id].unread

\* the step is a failed fetch of learn_last_read for the feed at feed_idx
FetchOfFeedFailed ==
    /\ pc = "learn"
    /\ Feeds[feed_idx] \notin warmup.failed
    /\ warmup'.failed = warmup.failed \cup {Feeds[feed_idx]}

\* C15: a failed fetch of warm-up leaves the queue as it is and moves on to
\* the next feed of the list, or ends the pass after the last feed, without
\* an error reaching run(); the pass never goes back to an earlier feed nor
\* fetches a feed that failed in it
C15_FailedFeedIsSkipped ==
    [][/\ FetchOfFeedFailed =>
             /\ title_queue' = title_queue
             /\ recovering' = recovering
             /\ IF feed_idx < Len(Feeds)
                THEN pc' = "learn" /\ feed_idx' = feed_idx + 1 /\ feed_batch' = 0
                ELSE pc' = "monitor"
       /\ (pc = "learn" /\ pc' = "learn") => feed_idx' >= feed_idx
       /\ pc' = "learn" => Feeds[feed_idx'] \notin warmup'.failed]_vars

\* C15 witness: the pass is over; the fetch of the first feed failed after a
\* record was learned from it, the record is in the queue, and so is a record
\* of the second feed
C15_Witness ==
    /\ pc = "monitor"
    /\ warmup.failed = {Feeds[1]}
    /\ \E i \in DOMAIN warmup.learned : warmup.learned[i].feed = Feeds[1]
    /\ \E i \in DOMAIN title_queue : title_queue[i].feed_id = Feeds[1]
    /\ \E i \in DOMAIN title_queue : title_queue[i].feed_id = Feeds[2]

\* the record learn_last_read appends for a learned article
RecordOf(entry) ==
    LearnedArticle(articles[entry.id].title, LearnedUrl(articles[entry.id].link),
                   entry.feed)

\* the step is a call of learn_last_read
WarmupCalled == pc = "loop" /\ iteration_count' = iteration_count + 1

\* C16: a call of warm-up with a non-empty queue and no force flag changes
\* neither the queue nor the backend and fetches nothing; any other call
\* starts from an empty queue at the first feed, and for as long as the pass
\* runs and when it has returned the queue holds the records learned in
\* this pass and no other
C16_CachedWarmupIsNoOp ==
    /\ [][WarmupCalled =>
             IF /\ ~(iteration_count' % config.learning_retry_interval = 0)
                /\ Len(title_queue) > 0
             THEN /\ title_queue' = title_queue
                  /\ articles' = articles
                  /\ pc' = "monitor"
                  /\ warmup'.call = "cached"
                  /\ UNCHANGED learn_frame
             ELSE /\ title_queue' = <<>>
                  /\ warmup'.call # "cached"
                  /\ warmup'.dropped = Len(title_queue)
                  /\ pc' = "learn" => (feed_idx' = 1 /\ feed_batch' = 0)]_vars
    /\ []((pc \in {"learn", "monitor"} /\ warmup.call \in {"learn", "relearn"}) =>
             LET k == Len(warmup.learned)
                 n == Min(k, Capacity)
             IN  title_queue = [i \in 1..n |-> RecordOf(warmup.learned[k - n + i])])

\* C16 witness: a forced warm-up cleared a queue that held records and has
\* learned again
C16_Witness ==
    /\ pc = "monitor"
    /\ warmup.call = "relearn"
    /\ warmup.dropped > 0
    /\ warmup.learned # <<>>
    /\ title_queue # <<>>

\* C17: a dry run never sleeps, and once it has fetched the unread articles
\* it goes through that batch and is done: it does not fetch again
C17_DryRunIsOnePass ==
    dry_run =>
        /\ pc # "sleep"
        /\ (pc = "fetch" => fetched_since = NoSince)
        /\ (fetched_since # NoSince => pc \in {"heads", "done"})

\* C17 witness: a dry run is done after a pass that evaluated an article,
\* while the backend holds a newer unread article it did not fetch
C17_Witness ==
    /\ dry_run
    /\ pc = "done"
    /\ verdict.id # 0
    /\ \E id \in DOMAIN articles : id > last_id /\ articles[id].unread

\* C18: the step of an interrupt ends the process and neither marks an
\* article nor writes the state file; once the process has ended no step
\* does, until a new process is started
C18_InterruptStopsAtOnce ==
    [][/\ (pc \in Running /\ pc' = "exit") =>
             (calls' = calls /\ state_file' = state_file /\ articles' = articles)
       /\ pc = "exit" =>
             /\ state_file' = state_file
             /\ calls' \subseteq calls
             /\ \A id \in DOMAIN articles : articles'[id] = articles[id]
             /\ pc' \in {"exit", "start"}]_vars

\* C18 witness: a live process that had marked a duplicate was interrupted
\* while unread articles were left; no checkpoint was ever written
C18_Witness ==
    /\ pc = "exit"
    /\ calls # {}
    /\ state_file = NoFile
    /\ \E id \in DOMAIN articles : articles[id].unread

\* C19 as claimed: the canonical URL of an evaluated article's link is its
\* own canonical URL
C19_CanonicalizeIsIdempotent ==
    verdict.id # 0 =>
        normalize_url(normalize_url(verdict.link)) = normalize_url(verdict.link)

\* C20 as claimed: links that differ in a tracking parameter and a fragment
\* only have one canonical URL, the link without them, whose first
\* parameter follows "?"; no canonical URL holds a fragment or a tracking
\* parameter
C20_StripsTrackingKeepsQuery ==
    verdict.id # 0 =>
        LET canonical == normalize_url(verdict.link)
        IN  /\ verdict.link \in {Tracked, Plain, TrackedLast} => canonical = Plain
            /\ \A i \in DOMAIN canonical :
                  /\ canonical[i] # "#"
                  /\ \A j \in DOMAIN tracking_params : canonical[i] # tracking_params[j]

(***************************************************************************)
(* C21.  When a poll cycle has completed and the process sleeps, a forced  *)
(* warm-up follows: a process that keeps completing poll cycles runs       *)
(* learn_last_read with force=True again and again, once every             *)
(* learning_retry_interval cycles.                                         *)
(***************************************************************************)
C21_ForcedWarmupFollowsPollCycles ==
    (pc = "sleep") ~> (pc = "learn" /\ warmup.call = "relearn")

(***************************************************************************)
(* C22.  A pass of the for loop of monitor_rss that handles an article to  *)
(* its end appends the record (title, canonical URL, feed id) of that      *)
(* article to title_queue, whether the article was a duplicate, was not,   *)
(* was updated or was of an ignored feed; the outcome of the pass is the   *)
(* classification of the article against title_queue as it was before     *)
(* that record was appended.                                               *)
(***************************************************************************)
HandledToEnd == pc = "heads" /\ idx' = idx + 1

C22_EveryHandledArticleIsAppended ==
    [][HandledToEnd =>
        LET head == headlines[idx]
            record == LearnedArticle(head.title, normalize_url(head.link), head.feed_id)
        IN  /\ verdict'.id = head.id
            /\ verdict'.queue = title_queue
            /\ verdict'.reason = Classify(head, title_queue, config)
            /\ title_queue' = DequeAppend(title_queue, Capacity, record)]_vars

\* an updated article or an article of an ignored feed was handled last, with
\* a queue that was not empty, and its record is the newest of title_queue
C22_Witness ==
    /\ pc = "heads"
    /\ verdict.id # 0
    /\ verdict.queue # <<>>
    /\ title_queue # <<>>
    /\ title_queue[Len(title_queue)].title = verdict.title
    /\ title_queue[Len(title_queue)].feed_id = verdict.feed_id
    /\ verdict.is_updated \/ Ignored(verdict.feed_id)

(***************************************************************************)
(* C23.  While the process runs, a step removes records from title_queue   *)
(* only from its oldest end and only by appending to a queue that is full  *)
(* after the step; the one other removal is that of a forced warm-up: a    *)
(* call of learn_last_read whose iteration count is a positive multiple of *)
(* learning_retry_interval empties the queue before it learns again.       *)
(***************************************************************************)
IsPrefix(p, q) == Len(p) <= Len(q) /\ SubSeq(q, 1, Len(p)) = p

\* the step evicts the k oldest records, and only by appends at capacity
Evicts(k) ==
    /\ IsPrefix(SubSeq(title_queue, k + 1, Len(title_queue)), title_queue')
    /\ k > 0 => Len(title_queue') = Capacity

InRun == pc \in Running /\ pc' \in Running

ForcedClear ==
    /\ WarmupCalled
    /\ iteration_count' % config.learning_retry_interval = 0
    /\ title_queue' = <<>>

C23_RecordsLeaveByEvictionOrForcedClear ==
    [][InRun => (ForcedClear \/ \E k \in 0..Len(title_queue) : Evicts(k))]_vars

\* C23 as stated: capacity eviction of the oldest record is the only way a
\* record leaves title_queue while the process runs
C23_RecordsLeaveByEvictionOnly ==
    [][InRun => \E k \in 0..Len(title_queue) : Evicts(k)]_vars

\* a forced warm-up has just emptied a queue that held a record and was
\* below its capacity
C23_Witness ==
    /\ pc = "learn"
    /\ warmup.call = "relearn"
    /\ warmup.dropped > 0
    /\ warmup.dropped < Capacity
    /\ warmup.learned = <<>>
    /\ title_queue = <<>>

(***************************************************************************)
(* C24.  In a live run, for the article a pass of the for loop classified  *)
(* as a duplicate, mark_read was invoked, and mark_starred was invoked if  *)
(* and only if the feed of the article is not in nostar_list, whether or   *)
(* not a call raised.                                                      *)
(***************************************************************************)
Invoked(op) == \E i \in DOMAIN verdict.marks : verdict.marks[i] = op

C24_DuplicateIsMarkedRead ==
    (~dry_run /\ verdict.reason # "none") =>
        /\ Invoked("mark_read")
        /\ Invoked("mark_starred") <=> str(verdict.feed_id) \notin config.nostar_list

(***************************************************************************)
(* C25.  With no usable state file load_state returns 0, and monitor_rss   *)
(* started with that 0 sets start_id to the id of the latest article minus *)
(* the unread count and goes on to poll, whatever the backend holds, as    *)
(* long as no call of the backend fails.                                   *)
(***************************************************************************)
NoCheckpoint == state_file = NoFile \/ ~IsInt(state_file)

C25_StartsPollingWithoutCheckpoint ==
    /\ [][(pc = "start" /\ pc' = "loop" /\ NoCheckpoint) => last_id' = 0]_vars
    /\ [][(pc = "monitor" /\ last_id = 0 /\ pc' \in Running \ {"monitor"} /\ faults' = faults) =>
            /\ pc' = "fetch"
            /\ start_id' = Len(articles) - get_unread_count]_vars

(***************************************************************************)
(* C26.  An article classified as a duplicate has evidence in the queue it *)
(* was classified against that is the record of another article: some     *)
(* article of the backend with another id has a record in that queue which *)
(* matches the classified article by link or by title.                     *)
(***************************************************************************)
\* the record lines 218-230 and 445-451 append for the article with this id
ArticleRecord(id) ==
    LearnedArticle(articles[id].title, LearnedUrl(articles[id].link), articles[id].feed_id)

C26_NeverDuplicateOfItself ==
    (Classified /\ verdict.reason # "none") =>
        \E id \in DOMAIN articles \ {verdict.id} :
            \E i \in DOMAIN verdict.queue :
                Evidence(i) /\ verdict.queue[i] = ArticleRecord(id)

(***************************************************************************)
(* C27.  An article classified as a duplicate by its URL has a canonical   *)
(* URL that is not empty: a link that normalize_url reduces to the empty   *)
(* string matches no record, and so not the records stored with an empty   *)
(* url for articles without a link.                                        *)
(***************************************************************************)
C27_UrlDuplicateHasCanonicalUrl ==
    (Classified /\ verdict.reason = "url") => normalize_url(verdict.link) # <<>>

(***************************************************************************)
(* C28.  A dry run leaves out the mark calls and nothing else: a pass of   *)
(* its for loop issues no call and changes no article, appends the record  *)
(* of the article and raises start_id to the article's id; when the batch  *)
(* is done start_id is at or above every id of the batch and is written to *)
(* the state file.  A live process started over that file polls from the   *)
(* written id: it classifies and marks only articles above it.             *)
(***************************************************************************)
DryPass == dry_run /\ HandledToEnd

DryBatchDone == dry_run /\ pc = "heads" /\ pc' = "done" /\ faults' = faults

C28_DryRunOnlySuppressesMarks ==
    /\ [][DryPass =>
            LET head == headlines[idx]
                record == LearnedArticle(head.title, normalize_url(head.link), head.feed_id)
            IN  /\ calls' = calls
                /\ articles' = articles
                /\ title_queue' = DequeAppend(title_queue, Capacity, record)
                /\ start_id' = Max(start_id, head.id)]_vars
    /\ [][DryBatchDone =>
            /\ \A i \in DOMAIN headlines : headlines[i].id <= start_id
            /\ state_file' = str(start_id)]_vars
    /\ []((~dry_run /\ Resumed) =>
            /\ (pc = "fetch" /\ fetched_since = NoSince) => start_id = Checkpoint
            /\ verdict.id # 0 => verdict.id > Checkpoint
            /\ \A call \in calls : call.id > Checkpoint)

\* a live process resumed from the id a dry run wrote has marked a duplicate
\* above that id, while the article with that id, which the dry run
\* evaluated, is still unread
C28_Witness ==
    /\ ~dry_run
    /\ Resumed
    /\ articles[Checkpoint].unread
    /\ calls # {}
    /\ verdict.id > Checkpoint
    /\ verdict.reason # "none"

====
